---- MODULE Spec2Model ----
(***************************************************************************)
(* WhatsApp link logger: the webhook pipeline of src/app.py (Hugging Face  *)
(* primary backend, keyword fallback) and of src/main.py (Ollama primary   *)
(* backend, OpenAI fallback).  Text is modelled as sequences of one-       *)
(* character strings so that slicing, splitting, replacing and the URL     *)
(* pattern are computed character by character as the code computes them.  *)
(***************************************************************************)
EXTENDS Integers, Sequences, FiniteSets, TLC

(* ------------------------------ bounds -------------------------------- *)
\* A message body is a concatenation of at most MaxParts pieces.
MaxParts == 3

(* ------------------------- program constants -------------------------- *)
ContentLimit == 500
SummaryWords == 5
KeywordCount == 4
KeywordMinLen == 3

(* ------------------------------ literals ------------------------------ *)
Http == <<"h","t","t","p",":","/","/">>
Https == <<"h","t","t","p","s",":","/","/">>
WwwDot == <<"w","w","w",".">>
DotCom == <<".","c","o","m">>
DotOrg == <<".","o","r","g">>
DotNet == <<".","n","e","t">>
LinkShared == <<" ","l","i","n","k"," ","s","h","a","r","e","d">>
MessageReceived == <<"m","e","s","s","a","g","e"," ","r","e","c","e","i","v","e","d">>
ContentLogged == <<"c","o","n","t","e","n","t"," ","l","o","g","g","e","d">>
SummaryGenerated == <<"S","u","m","m","a","r","y"," ","g","e","n","e","r","a","t","e","d">>
SummaryUnavailable == <<"S","u","m","m","a","r","y"," ","u","n","a","v","a","i","l","a","b","l","e">>
WhatsappPrefix == <<"w","h","a","t","s","a","p","p",":">>
\* U+2705, the check mark that opens both replies, as one character.
CheckMark == <<"U+2705">>
MessageReplyTail == <<" ","M","e","s","s","a","g","e"," ","l","o","g","g","e","d"," ","t","o"," ","y","o","u","r"," ","s","p","r","e","a","d","s","h","e","e","t","!">>
LoggedHead == <<" ","L","o","g","g","e","d"," ">>
LinksTail == <<" ","l","i","n","k","(","s",")"," ","t","o"," ","y","o","u","r"," ","s","p","r","e","a","d","s","h","e","e","t","!">>
CommonWords ==
    { <<"t","h","e">>, <<"a","n","d">>, <<"o","r">>, <<"b","u","t">>, <<"i","n">>,
      <<"o","n">>, <<"a","t">>, <<"t","o">>, <<"f","o","r">>, <<"o","f">>,
      <<"w","i","t","h">>, <<"b","y">>, <<"i","s">>, <<"a","r","e">>,
      <<"w","a","s">>, <<"w","e","r","e">>, <<"a">>, <<"a","n">> }

(* ------------------------- character classes -------------------------- *)
LowerLetters == <<"a","b","c","d","e","f","g","h","i","j","k","l","m","n","o","p","q","r","s","t","u","v","w","x","y","z">>
UpperLetters == <<"A","B","C","D","E","F","G","H","I","J","K","L","M","N","O","P","Q","R","S","T","U","V","W","X","Y","Z">>
DigitChars == <<"0","1","2","3","4","5","6","7","8","9">>
\* The class [$-_]: every character from "$" (0x24) to "_" (0x5F).
DollarToUnderscore == <<"$","%","&","'","(",")","*","+",",","-",".","/","0","1","2","3","4","5","6","7","8","9",":",";","<","=",">","?","@","A","B","C","D","E","F","G","H","I","J","K","L","M","N","O","P","Q","R","S","T","U","V","W","X","Y","Z","[","\\","]","^","_">>
\* The rest of [$-_@.&+] and [!*\\(\\),].
OtherUrlChars == <<"@",".","&","+","!","*","\\","(",")",",">>
Whitespace == {" ", "\t", "\n", "\r"}

Range(s) == {s[k] : k \in 1..Len(s)}

\* One repetition of the pattern's group (?:[a-zA-Z]|[0-9]|[$-_@.&+]|[!*\\(\\),]|%XX):
\* "%" is itself in [$-_], so the %XX alternative adds no string.
UrlChar(c) ==
    c \in Range(LowerLetters) \cup Range(UpperLetters) \cup Range(DigitChars)
          \cup Range(DollarToUnderscore) \cup Range(OtherUrlChars)

Min(S) == CHOOSE x \in S : \A y \in S : x <= y

(* --------------------------- string helpers --------------------------- *)
\* s[i:] starts with p (i is 1-based).
StartsAt(s, i, p) ==
    /\ i >= 1
    /\ i + Len(p) - 1 <= Len(s)
    /\ \A k \in 1..Len(p) : s[i + k - 1] = p[k]

\* p in s
Contains(s, p) == \E i \in 1..(Len(s) + 1) : StartsAt(s, i, p)

\* s[:n]
Slice(s, n) == SubSeq(s, 1, IF Len(s) < n THEN Len(s) ELSE n)

\* str.lower() on the ASCII letters.
LowerChar(c) ==
    IF c \in Range(UpperLetters)
    THEN LowerLetters[CHOOSE k \in 1..Len(UpperLetters) : UpperLetters[k] = c]
    ELSE c
ToLower(s) == [k \in 1..Len(s) |-> LowerChar(s[k])]

\* str.replace(old, ""): the non-overlapping occurrences of old, left to right.
RECURSIVE Remove(_, _)
Remove(s, old) ==
    LET hits == {i \in 1..Len(s) : StartsAt(s, i, old)}
    IN  IF hits = {} THEN s
        ELSE LET i == Min(hits)
             IN  SubSeq(s, 1, i - 1) \o Remove(SubSeq(s, i + Len(old), Len(s)), old)

\* str.split(): the maximal runs of non-whitespace characters.
RECURSIVE Split(_)
Split(s) ==
    LET starts == {i \in 1..Len(s) : s[i] \notin Whitespace}
    IN  IF starts = {} THEN <<>>
        ELSE LET i == Min(starts)
                 stops == {j \in i..Len(s) : s[j] \in Whitespace}
                 e == IF stops = {} THEN Len(s) ELSE Min(stops) - 1
             IN  <<SubSeq(s, i, e)>> \o Split(SubSeq(s, e + 1, Len(s)))

\* ' '.join(words)
RECURSIVE Join(_)
Join(words) ==
    IF words = <<>> THEN <<>>
    ELSE IF Len(words) = 1 THEN words[1]
    ELSE words[1] \o <<" ">> \o Join(Tail(words))

\* words[:n] of a list
FirstN(words, n) == SubSeq(words, 1, IF Len(words) < n THEN Len(words) ELSE n)

\* str(n) for n >= 0
RECURSIVE Decimal(_)
Decimal(n) ==
    IF n < 10 THEN <<DigitChars[n + 1]>>
    ELSE Decimal(n \div 10) \o <<DigitChars[(n % 10) + 1]>>

(* ------------------------- url_pattern.findall ------------------------ *)
\* Length of the scheme prefix http[s]?:// matched at i, 0 when none matches.
SchemeLen(s, i) ==
    IF StartsAt(s, i, Https) THEN Len(Https)
    ELSE IF StartsAt(s, i, Http) THEN Len(Http)
    ELSE 0

\* The pattern matches at i: the scheme, then at least one URL character.
MatchAt(s, i) ==
    /\ SchemeLen(s, i) > 0
    /\ i + SchemeLen(s, i) <= Len(s)
    /\ UrlChar(s[i + SchemeLen(s, i)])

\* The greedy "+": the last index of the run of URL characters that starts at j.
RunEnd(s, j) ==
    LET stops == {e \in j..Len(s) : ~UrlChar(s[e])}
    IN  IF stops = {} THEN Len(s) ELSE Min(stops) - 1

\* re.findall: leftmost match, then the scan resumes after it.
RECURSIVE FindAllFrom(_, _)
FindAllFrom(s, pos) ==
    LET starts == {i \in pos..Len(s) : MatchAt(s, i)}
    IN  IF starts = {} THEN <<>>
        ELSE LET i == Min(starts)
                 e == RunEnd(s, i + SchemeLen(s, i))
             IN  <<SubSeq(s, i, e)>> \o FindAllFrom(s, e + 1)

FindAll(s) == FindAllFrom(s, 1)

(* --------------------------- urlparse(url) ---------------------------- *)
NetlocStops == {"/", "?", "#"}

\* The characters between "//" and the first of "/", "?", "#".
Netloc(url) ==
    LET from == SchemeLen(url, 1) + 1
        stops == {j \in from..Len(url) : url[j] \in NetlocStops}
    IN  SubSeq(url, from, IF stops = {} THEN Len(url) ELSE Min(stops) - 1)

\* urlsplit raises ValueError("Invalid IPv6 URL") on an unbalanced bracket.
UrlparseRaises(url) ==
    LET n == Range(Netloc(url))
    IN  ("[" \in n /\ "]" \notin n) \/ ("]" \in n /\ "[" \notin n)

(* ------------------------ summary post-processing --------------------- *)
\* ' '.join(summary.strip().split()[:5])
FirstWords(text) == Join(FirstN(Split(text), SummaryWords))

\* Hugging Face branch: ' '.join(words) if words else "Summary generated"
HuggingFaceSummary(text) ==
    IF Split(text) = <<>> THEN SummaryGenerated ELSE FirstWords(text)

\* Ollama and OpenAI branches: ' '.join(words)
PlainSummary(text) == FirstWords(text)

\* domain.replace('www.', '').replace('.com', '').replace('.org', '').replace('.net', '')
DomainWords(domain) == Remove(Remove(Remove(Remove(domain, WwwDot), DotCom), DotOrg), DotNet)

\* Mutant: len(word) >= 3.
KeywordsMutant(content) ==
    FirstN(SelectSeq(Split(ToLower(content)),
                     LAMBDA w : Len(w) >= KeywordMinLen /\ w \notin CommonWords),
           KeywordCount)

\* [word for word in words if len(word) > 3 and word not in common_words][:4]
Keywords(content) ==
    FirstN(SelectSeq(Split(ToLower(content)),
                     LAMBDA w : Len(w) > KeywordMinLen /\ w \notin CommonWords),
           KeywordCount)

\* generate_simple_summary(content, url); url = <<>> stands for None.
generate_simple_summary(content, url) ==
    IF url # <<>>
    THEN IF UrlparseRaises(url) THEN ContentLogged
         ELSE DomainWords(Netloc(url)) \o LinkShared
    ELSE IF Keywords(content) = <<>> THEN MessageReceived
         ELSE Join(Keywords(content))

(* ------------------------------- replies ------------------------------ *)
MessageReply == CheckMark \o MessageReplyTail
LinksReply(n) == CheckMark \o LoggedHead \o Decimal(n) \o LinksTail

(* -------------------------------- inputs ------------------------------ *)
FoxPhrase == <<"T","h","e"," ","q","u","i","c","k"," ","b","r","o","w","n"," ","f","o","x"," ","j","u","m","p","s">>
UrlExample == <<"h","t","t","p",":","/","/","w","w","w",".","e","x","a","m","p","l","e",".","c","o","m">>
UrlInner == <<"h","t","t","p","s",":","/","/","a","w","w","w",".","x",".","c","o","m",".","a","u">>
Space == <<" ">>
Bracket == <<"[">>
Pieces == {Space, Bracket, FoxPhrase, UrlExample, UrlInner}

\* A run of ContentLimit characters, appended to make a body exceed the limit.
Padding == [k \in 1..ContentLimit |-> "x"]

RECURSIVE Concats(_)
Concats(n) ==
    IF n = 0 THEN {<<>>}
    ELSE Concats(n - 1) \cup {b \o p : b \in Concats(n - 1), p \in Pieces}

\* The Body form values: the short bodies, and each piece made oversized.
Bodies == Concats(MaxParts) \cup {b \o Padding : b \in Concats(1)}

PhoneNumber == <<"+","1","5","5","5">>
\* The From form values.
Froms == {<<>>, WhatsappPrefix, WhatsappPrefix \o PhoneNumber,
          WhatsappPrefix \o PhoneNumber \o WhatsappPrefix}

TextSix == <<"a"," ","b"," ","c"," ","d"," ","e"," ","f">>
TextSpaced == <<" ","G","r","e","a","t"," "," ","s","i","t","e"," ">>
\* The text a backend returns in a well-formed answer.
Texts == {<<>>, TextSpaced, TextSix}

(* ---------------------------- backend answers ------------------------- *)
\* What requests.post gives: status 0 stands for a raised exception (timeout,
\* refused connection); shape is what response.json() yields: the shape the
\* code reads ("expected"), another JSON value ("other"), or a decode error
\* ("invalid").
Responses ==
    {[status |-> 0, shape |-> "invalid", text |-> <<>>],
     [status |-> 503, shape |-> "other", text |-> <<>>],
     [status |-> 500, shape |-> "other", text |-> <<>>],
     [status |-> 200, shape |-> "other", text |-> <<>>],
     [status |-> 200, shape |-> "invalid", text |-> <<>>]}
    \cup {[status |-> 200, shape |-> "expected", text |-> t] : t \in Texts}

\* openai.ChatCompletion.create: an exception, or a completion with a content.
Completions ==
    {[raised |-> TRUE, text |-> <<>>]} \cup {[raised |-> FALSE, text |-> t] : t \in Texts}

\* extract_page_title: None (non-200, no <title>, or an exception), or a title.
NoTitle == <<"None">>
PageTitle == <<"T","i","t","l","e">>
Titles == {NoTitle, PageTitle}

\* No text was read from an answer of the primary backend.
NoText == <<"None">>

(* -------------------------------- state ------------------------------- *)
VARIABLES
    variant,        \* "app" (src/app.py) or "main" (src/main.py)
    pc,             \* where the request handler stands
    message_body,   \* webhook: request.form Body
    sender_number,  \* webhook: request.form From without "whatsapp:"
    sheet_ok,       \* self.sheet is not None
    sheet,          \* the rows of the remote sheet
    urls,           \* process_message: urls
    idx,            \* process_message: position of the loop over urls
    url,            \* the url argument of the summarizer (<<>> for None)
    page_title,     \* the summarizer's page_title
    summary,        \* process_message: summary
    source,         \* which step produced summary
    calls,          \* outbound calls of the running summarizer call, in order
    statuses,       \* status of each answer of the primary backend, in order
    summary_text,   \* the text read from the primary's last answer, if any
    attempts,       \* outcome of each log_to_spreadsheet call of this request
    response_text,  \* process_message: response_text
    sent,           \* messages handed to the messaging gateway
    http_status,    \* status the webhook answers with (0: not yet)
    raised          \* an exception is propagating out of process_message

vars == <<variant, pc, message_body, sender_number, sheet_ok, sheet, urls, idx, url,
          page_title, summary, source, calls, statuses, summary_text, attempts,
          response_text,
          sent, http_status, raised>>

request == <<message_body, sender_number>>
loop == <<urls, idx, url>>
locals == <<page_title, summary, source, calls, statuses, summary_text>>
outputs == <<sheet, attempts, response_text, sent, http_status, raised>>

Headers == [date |-> "Date", time |-> "Time", message_type |-> "Message Type",
            content |-> "Content", url |-> "URL", summary |-> "Summary",
            sender |-> "Sender"]

Init ==
    /\ variant \in {"app", "main"}
    /\ pc = "idle"
    /\ message_body = <<>>
    /\ sender_number = <<>>
    /\ sheet_ok \in BOOLEAN
    /\ sheet = IF sheet_ok THEN <<Headers>> ELSE <<>>
    /\ urls = <<>>
    /\ idx = 0
    /\ url = <<>>
    /\ page_title = NoTitle
    /\ summary = <<>>
    /\ source = "none"
    /\ calls = <<>>
    /\ statuses = <<>>
    /\ summary_text = NoText
    /\ attempts = <<>>
    /\ response_text = <<>>
    /\ sent = <<>>
    /\ http_status = 0
    /\ raised = FALSE

(* ------------------------------- webhook ------------------------------ *)
\* Mutant: the guard tests the body alone, if message_body:
WebhookMutant ==
    /\ pc = "idle"
    /\ \E b \in Bodies, f \in Froms :
        /\ message_body' = b
        /\ sender_number' = Remove(f, WhatsappPrefix)
        /\ pc' = IF b # <<>> THEN "process" ELSE "respond"
    /\ UNCHANGED <<variant, sheet_ok, loop, locals, outputs>>

\* webhook(): reads the form, then processes or answers at once.
Webhook ==
    /\ pc = "idle"
    /\ \E b \in Bodies, f \in Froms :
        /\ message_body' = b
        /\ sender_number' = Remove(f, WhatsappPrefix)
        /\ pc' = IF b # <<>> /\ Remove(f, WhatsappPrefix) # <<>>
                 THEN "process" ELSE "respond"
    /\ UNCHANGED <<variant, sheet_ok, loop, locals, outputs>>

\* process_message: urls = self.url_pattern.findall(message_body)
ProcessMessage ==
    /\ pc = "process"
    /\ urls' = FindAll(message_body)
    /\ idx' = 1
    /\ url' = IF FindAll(message_body) # <<>> THEN FindAll(message_body)[1] ELSE <<>>
    /\ pc' = "summarize"
    /\ UNCHANGED <<variant, sheet_ok, request, locals, outputs>>

(* ------------------------------ summarizer ---------------------------- *)
\* The text to summarize / the prompt: with a url, extract_page_title(url)
\* is called first.  Runs on entry of the primary and of the OpenAI step.
PrepareText ==
    /\ pc \in {"summarize", "openai"}
    /\ IF url # <<>>
       THEN /\ \E t \in Titles : page_title' = t
            /\ calls' = Append(calls, "title")
       ELSE UNCHANGED <<page_title, calls>>
    /\ pc' = IF pc = "summarize" THEN "post" ELSE "create"
    /\ UNCHANGED <<variant, sheet_ok, request, loop, summary, source, statuses,
                   summary_text, outputs>>

\* The answer carries a summary the code returns.
Usable(r) == r.status = 200 /\ r.shape = "expected"

\* Mutant: the fallback of main.py, the OpenAI step, in app.py.
HuggingFaceFallbackMutant == "openai"

\* app.py: where generate_summary_with_huggingface goes when no summary was returned.
HuggingFaceFallback == "simple"

\* main.py: where generate_summary_with_ollama goes when no summary was returned.
OllamaFallback == "openai"

\* app.py: the step after the first answer r of the Hugging Face endpoint.
AfterFirstPost(r) ==
    IF Usable(r) THEN "log"
    ELSE IF r.status = 503 THEN "retry"
    ELSE HuggingFaceFallback

\* Mutant: the second answer is handled like the first, so a 503 retries again.
AfterRetryMutant(r) == AfterFirstPost(r)

\* app.py: the step after the second answer r.
AfterRetry(r) == IF Usable(r) THEN "log" ELSE HuggingFaceFallback

\* app.py: requests.post(hf_url, ...) and the branch on its status.
HuggingFacePost ==
    /\ variant = "app"
    /\ pc = "post"
    /\ \E r \in Responses :
        /\ calls' = Append(calls, "primary")
        /\ statuses' = Append(statuses, r.status)
        /\ pc' = AfterFirstPost(r)
        /\ IF Usable(r)
           THEN /\ summary' = HuggingFaceSummary(r.text)
                /\ source' = "primary"
                /\ summary_text' = r.text
           ELSE UNCHANGED <<summary, source, summary_text>>
    /\ UNCHANGED <<variant, sheet_ok, request, loop, page_title, outputs>>

\* app.py: the second requests.post, after the 10 second sleep.
HuggingFaceRetry ==
    /\ pc = "retry"
    /\ \E r \in Responses :
        /\ calls' = Append(calls, "primary")
        /\ statuses' = Append(statuses, r.status)
        /\ pc' = AfterRetry(r)
        /\ IF Usable(r)
           THEN /\ summary' = HuggingFaceSummary(r.text)
                /\ source' = "primary"
                /\ summary_text' = r.text
           ELSE UNCHANGED <<summary, source, summary_text>>
    /\ UNCHANGED <<variant, sheet_ok, request, loop, page_title, outputs>>

\* app.py: return self.generate_simple_summary(content, url)
SimpleSummary ==
    /\ pc = "simple"
    /\ calls' = Append(calls, "local")
    /\ summary' = generate_simple_summary(message_body, url)
    /\ source' = "local"
    /\ pc' = "log"
    /\ UNCHANGED <<variant, sheet_ok, request, loop, page_title, statuses,
                   summary_text, outputs>>

\* main.py: requests.post(ollama_url, ...) and the branch on its status.
OllamaPost ==
    /\ variant = "main"
    /\ pc = "post"
    /\ \E r \in Responses :
        /\ calls' = Append(calls, "primary")
        /\ statuses' = Append(statuses, r.status)
        /\ IF Usable(r)
           THEN /\ summary' = PlainSummary(r.text)
                /\ source' = "primary"
                /\ summary_text' = r.text
                /\ pc' = "log"
           ELSE UNCHANGED <<summary, source, summary_text>> /\ pc' = OllamaFallback
    /\ UNCHANGED <<variant, sheet_ok, request, loop, page_title, outputs>>

\* generate_summary_with_openai: the completion call and its except clause.
OpenAICreate ==
    /\ pc = "create"
    /\ \E c \in Completions :
        /\ calls' = Append(calls, "secondary")
        /\ summary' = IF c.raised THEN SummaryUnavailable ELSE PlainSummary(c.text)
        /\ source' = IF c.raised THEN "unavailable" ELSE "secondary"
    /\ pc' = "log"
    /\ UNCHANGED <<variant, sheet_ok, request, loop, page_title, statuses,
                   summary_text, outputs>>

(* ------------------------------ log sink ------------------------------ *)
\* Mutant: the "Link" literal pasted into the branch without URLs.
MessageTypeMutant(u) == "Link"

\* message_type of the row: "Link" in the loop over urls, "Message" otherwise.
MessageType(u) == IF u # <<>> THEN "Link" ELSE "Message"

\* Mutant: the content logged whole.
RowContentMutant(content) == content

\* content[:500]
RowContent(content) == Slice(content, ContentLimit)

\* Mutant: the url argument not passed on, so the column is always "".
RowMutant(message_type, content, u, s, sender) ==
    [date |-> "%Y-%m-%d", time |-> "%H:%M:%S", message_type |-> message_type,
     content |-> Slice(content, ContentLimit), url |-> <<>>, summary |-> s,
     sender |-> sender]

\* The 7-column row of log_to_spreadsheet; url or "" is <<>> for None.
Row(message_type, content, u, s, sender) ==
    [date |-> "%Y-%m-%d", time |-> "%H:%M:%S", message_type |-> message_type,
     content |-> RowContent(content), url |-> u, summary |-> s, sender |-> sender]

\* Mutant: append_row outside the try block.
SpreadsheetErrorEscapes == FALSE

\* except Exception around append_row: the error is logged, not re-raised.
SpreadsheetErrorCaught == TRUE

\* except Exception around messages.create: the error is logged, not re-raised.
GatewayErrorCaught == TRUE

\* What log_to_spreadsheet can do: nothing without a handle, else append or fail.
AppendOutcomes == IF sheet_ok THEN {"appended", "failed"} ELSE {"no_sheet"}

\* process_message: one log_to_spreadsheet call, then the next url or the end
\* of the branch.  The summarizer's locals end here.
LogToSpreadsheet ==
    /\ pc = "log"
    /\ \E o \in AppendOutcomes :
        /\ attempts' = Append(attempts, [message_type |-> MessageType(url),
                                         outcome |-> o])
        /\ sheet' = IF o = "appended"
                    THEN Append(sheet, Row(MessageType(url), message_body, url,
                                           summary, sender_number))
                    ELSE sheet
        /\ IF o = "failed" /\ ~SpreadsheetErrorCaught
           THEN /\ raised' = TRUE
                /\ pc' = "respond"
                /\ UNCHANGED <<idx, url>>
           ELSE /\ raised' = raised
                /\ IF urls # <<>> /\ idx < Len(urls)
                   THEN /\ idx' = idx + 1
                        /\ url' = urls[idx + 1]
                        /\ pc' = "summarize"
                   ELSE /\ UNCHANGED <<idx, url>>
                        /\ pc' = "return"
    /\ page_title' = NoTitle
    /\ source' = "none"
    /\ calls' = <<>>
    /\ statuses' = <<>>
    /\ summary_text' = NoText
    /\ UNCHANGED <<variant, sheet_ok, request, urls, summary, response_text, sent,
                   http_status>>

\* Mutant: the reply counts the distinct URLs, len(set(urls)).
ProcessReturnMutant ==
    /\ pc = "return"
    /\ response_text' = IF urls # <<>> THEN LinksReply(Cardinality(Range(urls)))
                        ELSE MessageReply
    /\ pc' = "send"
    /\ UNCHANGED <<variant, sheet_ok, request, loop, locals, sheet, attempts, sent,
                   http_status, raised>>

\* process_message: response_text and return.
ProcessReturn ==
    /\ pc = "return"
    /\ response_text' = IF urls # <<>> THEN LinksReply(Len(urls)) ELSE MessageReply
    /\ pc' = "send"
    /\ UNCHANGED <<variant, sheet_ok, request, loop, locals, sheet, attempts, sent,
                   http_status, raised>>

(* ------------------------------- gateway ------------------------------ *)
\* Mutant: the number without the transport prefix.
RecipientMutant(to_number) == to_number

\* to=f'whatsapp:{to_number}'
Recipient(to_number) == WhatsappPrefix \o to_number

\* send_whatsapp_message(sender_number, response_text)
SendWhatsappMessage ==
    /\ pc = "send"
    /\ \E ok \in BOOLEAN :
        /\ sent' = Append(sent, [to |-> Recipient(sender_number),
                                 body |-> response_text, delivered |-> ok])
        /\ raised' = (~ok /\ ~GatewayErrorCaught)
    /\ pc' = "respond"
    /\ UNCHANGED <<variant, sheet_ok, request, loop, locals, sheet, attempts,
                   response_text, http_status>>

\* webhook(): jsonify success with 200, or the except clause with 500.
Respond ==
    /\ pc = "respond"
    /\ http_status' = IF raised THEN 500 ELSE 200
    /\ pc' = "done"
    /\ UNCHANGED <<variant, sheet_ok, request, loop, locals, sheet, attempts,
                   response_text, sent, raised>>

Next ==
    \/ Webhook
    \/ ProcessMessage
    \/ PrepareText
    \/ HuggingFacePost
    \/ HuggingFaceRetry
    \/ SimpleSummary
    \/ OllamaPost
    \/ OpenAICreate
    \/ LogToSpreadsheet
    \/ ProcessReturn
    \/ SendWhatsappMessage
    \/ Respond

Spec == Init /\ [][Next]_vars

(* ============================== claims ================================ *)
\* process_message has returned and its reply is not yet sent.
Returned == pc = "send"

\* The summarizer has returned and its summary is not yet logged.
Summarized == pc = "log"

\* The rows this request has added to the sheet.
NewRows == SubSeq(sheet, (IF sheet_ok THEN 1 ELSE 0) + 1, Len(sheet))

\* Number of positions of seq that satisfy Test.
Count(seq, Test(_)) == Cardinality({k \in 1..Len(seq) : Test(seq[k])})

Appended(a) == a.outcome = "appended"
IsPrimary(c) == c = "primary"
IsSecondary(c) == c = "secondary"
IsLocal(c) == c = "local"
IsTitle(c) == c = "title"
NotTitle(c) == c # "title"

\* "Logged N link(s) to your spreadsheet!"
LoggedLinksText(n) == Tail(LoggedHead) \o Decimal(n) \o LinksTail
\* "Message logged to your spreadsheet!"
MessageLoggedText == Tail(MessageReplyTail)
MessageLogged == <<"M","e","s","s","a","g","e"," ","l","o","g","g","e","d">>

\* C1 as stated: a body without URLs adds exactly one row, of kind "Message",
\* and the reply contains "Message logged", whatever the sheet did.
C1_AsStated ==
    (Returned /\ urls = <<>>) =>
        /\ Len(NewRows) = 1
        /\ NewRows[1].message_type = "Message"
        /\ Contains(response_text, MessageLogged)

\* C1 amended: a body without URLs makes exactly one log_to_spreadsheet call,
\* of kind "Message", and the reply contains "Message logged"; the sheet gains
\* one "Message" row when the handle is present and the append succeeds, and
\* no row when the handle is absent or the append fails.
C1_OneMessageAttempt ==
    (Returned /\ urls = <<>>) =>
        /\ Len(attempts) = 1
        /\ attempts[1].message_type = "Message"
        /\ attempts[1].outcome = "no_sheet" <=> ~sheet_ok
        /\ Len(NewRows) = (IF attempts[1].outcome = "appended" THEN 1 ELSE 0)
        /\ \A k \in 1..Len(NewRows) :
              NewRows[k].message_type = "Message" /\ NewRows[k].url = <<>>
        /\ Contains(response_text, MessageLogged)

C1_Witness ==
    /\ Returned /\ urls = <<>>
    /\ Len(NewRows) = 1
    /\ NewRows[1].message_type = "Message"
    /\ Contains(response_text, MessageLogged)

\* C2 as stated: a body with N >= 1 URL occurrences adds exactly N rows of kind
\* "Link", none of kind "Message", and the reply is "Logged N link(s) to your
\* spreadsheet!".
C2_AsStated ==
    (Returned /\ urls # <<>>) =>
        /\ Len(NewRows) = Len(urls)
        /\ \A k \in 1..Len(NewRows) : NewRows[k].message_type = "Link"
        /\ Contains(response_text, LoggedLinksText(Len(urls)))

\* C2 amended: a body with N >= 1 URL occurrences makes exactly N
\* log_to_spreadsheet calls, all of kind "Link", and the reply is "Logged N
\* link(s) to your spreadsheet!"; the sheet gains one "Link" row per call that
\* succeeds, hence N rows when the handle is present and no append fails.
C2_LinkAttempts ==
    (Returned /\ urls # <<>>) =>
        /\ Len(attempts) = Len(urls)
        /\ \A k \in 1..Len(attempts) : attempts[k].message_type = "Link"
        /\ Len(NewRows) = Count(attempts, Appended)
        /\ \A k \in 1..Len(NewRows) : NewRows[k].message_type = "Link"
        /\ Contains(response_text, LoggedLinksText(Len(urls)))
        /\ \A n \in 0..(Len(urls) + 1) :
              n # Len(urls) => ~Contains(response_text, LoggedLinksText(n))

\* Two occurrences of the same URL, both logged.
C2_Witness ==
    /\ Returned
    /\ Len(urls) = 2
    /\ urls[1] = urls[2]
    /\ Len(NewRows) = 2
    /\ Contains(response_text, LoggedLinksText(2))

\* C3 as stated: every summary the summarizer returns is non-empty and has at
\* most 5 whitespace-separated tokens.
C3_AsStated ==
    Summarized => summary # <<>> /\ Len(Split(summary)) \in 1..SummaryWords

SourcesCalled == SelectSeq(calls, NotTitle)

NormalReply(t) ==
    \/ t = CheckMark \o <<" ">> \o MessageLoggedText
    \/ \E n \in 1..Len(message_body) : t = CheckMark \o <<" ">> \o LoggedLinksText(n)

\* The steps of process_message between the URL extraction and the return.
InSummaryLoop ==
    pc \in {"summarize", "post", "retry", "simple", "openai", "create", "log", "return"}

\* Steps left before the current url is logged: the longest way is
\* summarize, post, retry or openai, simple or create, log.
StepsToLog ==
    CASE pc = "summarize" -> 5
      [] pc = "post" -> 4
      [] pc \in {"retry", "openai"} -> 3
      [] pc \in {"simple", "create"} -> 2
      [] pc = "log" -> 1
      [] OTHER -> 0

\* A bound on the steps left in process_message: it falls with every step.
UrlsLeft == IF urls = <<>> THEN 0 ELSE Len(urls) - idx
Rank == (IF pc = "return" THEN 0 ELSE UrlsLeft * 5 + 1) + StepsToLog

\* A step of process_message leads to another of its steps or to its return.
StaysInProcess == InSummaryLoop' \/ Returned'

ProcessDidNotFail ==
    /\ ~raised
    /\ http_status # 500
    /\ Returned => NormalReply(response_text)
    /\ (pc \in {"respond", "done"} /\ message_body # <<>> /\ sender_number # <<>>) =>
          NormalReply(response_text)

\* C5: process_message never raises and always returns: no exception leaves
\* it, each step of it leads to a further step or to its return while a bound
\* on the steps left falls, and what it returns is one of the two replies,
\* whatever the title fetch, the backends and the sheet did.
C5_ProcessNeverFails ==
    /\ []ProcessDidNotFail
    /\ [][InSummaryLoop => StaysInProcess /\ (InSummaryLoop' => Rank' < Rank)]_vars

\* process_message returned although a backend raised and an append failed.
C5_Witness ==
    /\ Returned
    /\ NormalReply(response_text)
    /\ \E k \in 1..Len(attempts) : attempts[k].outcome = "failed"
    /\ summary \in {ContentLogged, SummaryUnavailable}

\* C6 as stated: once a webhook call is handled, a reply with the text of
\* process_message has been sent to the sender of the call.
C6_AsStated ==
    pc = "done" =>
        /\ Len(sent) >= 1
        /\ sent[Len(sent)].to = WhatsappPrefix \o sender_number
        /\ sent[Len(sent)].body = response_text
        /\ NormalReply(response_text)

\* C6 amended: once a webhook call with a non-empty Body and a non-empty From
\* (after "whatsapp:" is removed) is handled, exactly one message has been
\* handed to the gateway, addressed to "whatsapp:" + sender and carrying the
\* reply of process_message, and the webhook answers 200, whatever the
\* backends, the sheet and the gateway did.
C6_ReplySent ==
    (pc = "done" /\ message_body # <<>> /\ sender_number # <<>>) =>
        /\ Len(sent) = 1
        /\ sent[1].to = WhatsappPrefix \o sender_number
        /\ sent[1].body = response_text
        /\ NormalReply(response_text)
        /\ http_status = 200

\* A reply went out although nothing was written to the sheet.
C6_Witness ==
    /\ pc = "done"
    /\ Len(sent) = 1
    /\ sent[1].delivered
    /\ sent[1].to = WhatsappPrefix \o PhoneNumber
    /\ NewRows = <<>>

EndsWith(s, p) == Len(s) >= Len(p) /\ StartsAt(s, Len(s) - Len(p) + 1, p)
DropPrefix(s, p) == IF StartsAt(s, 1, p) THEN SubSeq(s, Len(p) + 1, Len(s)) ELSE s
DropSuffix(s, p) == IF EndsWith(s, p) THEN SubSeq(s, 1, Len(s) - Len(p)) ELSE s

\* The host without a leading "www." and without a trailing ".com", ".org" or ".net".
StripHost(h) ==
    LET a == DropPrefix(h, WwwDot)
    IN  IF EndsWith(a, DotCom) THEN DropSuffix(a, DotCom)
        ELSE IF EndsWith(a, DotOrg) THEN DropSuffix(a, DotOrg)
        ELSE DropSuffix(a, DotNet)

\* C7 as stated: with a URL and the remote backends failing, the local fallback
\* returns "{h} link shared", h being the host without a leading "www." and
\* without a trailing ".com", ".org" or ".net", every other character kept.
C7_AsStated ==
    (Summarized /\ source = "local" /\ url # <<>> /\ ~UrlparseRaises(url)) =>
        summary = StripHost(Netloc(url)) \o LinkShared

QuickBrownFoxJumps == <<"q","u","i","c","k"," ","b","r","o","w","n"," ","f","o","x"," ","j","u","m","p","s">>
QuickBrownJumps == <<"q","u","i","c","k"," ","b","r","o","w","n"," ","j","u","m","p","s">>

FoxFallback ==
    Summarized /\ source = "local" /\ url = <<>> /\ message_body = FoxPhrase

\* C8 as stated: for "The quick brown fox jumps", without a URL and with the
\* remote backends failing, the local fallback returns "quick brown fox jumps".
C8_AsStated == FoxFallback => summary = QuickBrownFoxJumps

\* C8 amended: for "The quick brown fox jumps", without a URL and with the
\* remote backends failing, the local fallback returns "quick brown jumps": the
\* words in their order, without the stop-words and without the words of 3
\* characters or fewer ("The", "fox"), limited to the first 4.
C8_QuickBrownJumps == FoxFallback => summary = QuickBrownJumps

C8_Witness == FoxFallback /\ summary = QuickBrownJumps

\* C9: the content column of every row this request appended is the first
\* min(len(body), 500) characters of the body, and no exception is raised.
C9_ContentTruncated ==
    /\ ~raised
    /\ \A k \in 1..Len(NewRows) :
          LET n == IF Len(message_body) < ContentLimit THEN Len(message_body)
                   ELSE ContentLimit
          IN  /\ Len(NewRows[k].content) = n
              /\ \A j \in 1..n : NewRows[k].content[j] = message_body[j]

\* An oversized body was logged with exactly 500 characters.
C9_Witness ==
    /\ Len(message_body) > ContentLimit
    /\ Len(NewRows) >= 1
    /\ Len(NewRows[1].content) = ContentLimit

Max(a, b) == IF a > b THEN a ELSE b

\* C10 as stated: in one summarizer call the primary backend gets at most two
\* requests, a second one exactly when the first answer was a 503, and no
\* other outbound call is repeated.
C10_AsStated ==
    /\ Summarized =>
          /\ Count(calls, IsPrimary) <= 2
          /\ Count(calls, IsPrimary) = 2 <=> statuses[1] = 503
          /\ Count(calls, IsTitle) <= 1
          /\ Count(calls, IsSecondary) <= 1
    /\ Len(sent) <= 1
    /\ Len(attempts) <= Max(1, Len(urls))

\* C10 amended: in app.py the primary backend gets at most two requests in one
\* summarizer call, a second one exactly when the first answer was a 503; in
\* main.py it gets exactly one request whatever the status.  The secondary
\* backend, the sheet append (once per URL or message) and the reply are each
\* attempted once; the title is fetched once per request to a backend that
\* has a URL, so main.py fetches it again when it consults the secondary.
C10_RetryOnce ==
    /\ Summarized =>
          /\ Len(statuses) = Count(calls, IsPrimary)
          /\ variant = "app" =>
                /\ Count(calls, IsPrimary) = (IF statuses[1] = 503 THEN 2 ELSE 1)
                /\ Count(calls, IsSecondary) = 0
                /\ Count(calls, IsTitle) = (IF url # <<>> THEN 1 ELSE 0)
          /\ variant = "main" =>
                /\ Count(calls, IsPrimary) = 1
                /\ Count(calls, IsSecondary) <= 1
                /\ Count(calls, IsTitle) =
                      (IF url # <<>> THEN 1 + Count(calls, IsSecondary) ELSE 0)
    /\ Len(sent) <= 1
    /\ Len(attempts) <= Max(1, Len(urls))
    /\ Returned => Len(attempts) = Max(1, Len(urls))

\* app.py retried after a 503 and the second answer was a 503 again.
C10_Witness ==
    /\ Summarized
    /\ variant = "app"
    /\ statuses = <<503, 503>>
    /\ Count(calls, IsPrimary) = 2

\* The primary backend's last answer was a 200 whose text the code read.
PrimarySucceeded ==
    /\ Summarized
    /\ statuses # <<>>
    /\ statuses[Len(statuses)] = 200
    /\ summary_text # NoText

\* C11 as stated: after a successful (HTTP 200) answer of the primary backend
\* the summarizer returns the first 5 whitespace-separated words of the
\* returned text joined by single spaces, or "Summary generated" when the text
\* has no word, and no later step of the chain is consulted.
C11_AsStated ==
    PrimarySucceeded =>
        /\ summary = (IF Split(summary_text) = <<>> THEN SummaryGenerated
                      ELSE Join(FirstN(Split(summary_text), SummaryWords)))
        /\ Count(calls, IsSecondary) = 0
        /\ Count(calls, IsLocal) = 0

\* The sheet handle is present and no append of this request has failed.
WorkingSheet ==
    sheet_ok /\ \A k \in 1..Len(attempts) : attempts[k].outcome = "appended"

\* The summarizer is running, or has returned a summary that is not yet logged.
InSummarizer ==
    pc \in {"summarize", "post", "retry", "simple", "openai", "create", "log"}

\* With a working sheet, the rows of this request are those of the first URLs,
\* in extraction order, and the summarizer works on the URL after the last row.
RowsFollowUrls ==
    (urls # <<>> /\ WorkingSheet) =>
        /\ Len(NewRows) = Len(attempts)
        /\ Len(NewRows) <= Len(urls)
        /\ \A k \in 1..Len(NewRows) :
              /\ NewRows[k].message_type = "Link"
              /\ NewRows[k].url = urls[k]
              /\ NewRows[k].content = Slice(message_body, ContentLimit)
              /\ NewRows[k].sender = sender_number
        /\ InSummarizer => url = urls[idx] /\ Len(NewRows) = idx - 1
        /\ Returned => Len(NewRows) = Len(urls)

\* A step keeps the rows the sheet holds; it adds at most one row, at the end,
\* and that row carries the summary just computed for the current URL.
RowAppended ==
    /\ Len(sheet') >= Len(sheet)
    /\ SubSeq(sheet', 1, Len(sheet)) = sheet
    /\ Len(sheet') > Len(sheet) =>
          /\ Len(sheet') = Len(sheet) + 1
          /\ pc = "log"
          /\ sheet'[Len(sheet')].summary = summary
          /\ sheet'[Len(sheet')].url = url

\* C12: with a working sheet, the k-th row a call appends has the k-th URL in
\* extraction order (duplicates included), the truncated body and the caller's
\* sender; its summary is computed for that URL after row k-1 was appended and
\* before row k is; rows already in the sheet are never changed or removed.
C12_RowsInOrder == []RowsFollowUrls /\ [][RowAppended]_vars

\* Two different URLs, logged in extraction order after the header row.
C12_Witness ==
    /\ Returned
    /\ WorkingSheet
    /\ Len(urls) = 2
    /\ urls[1] # urls[2]
    /\ sheet[1] = Headers
    /\ Len(NewRows) = 2
    /\ NewRows[1].url = urls[1]
    /\ NewRows[2].url = urls[2]
    /\ NewRows[1].summary # NewRows[2].summary

\* The webhook has read a form whose Body is empty or whose From, without
\* "whatsapp:", is empty (a From that is empty once its prefix is removed is
\* "" or "whatsapp:", and gives an empty sender_number).
SkippedCall == pc # "idle" /\ (message_body = <<>> \/ sender_number = <<>>)

\* C13: a webhook call with an empty Body, or with a From that is empty once
\* "whatsapp:" is removed, changes nothing: no URL is extracted, no backend is
\* called, no row is appended, no reply is sent, and the answer is HTTP 200.
C13_SkippedCallChangesNothing ==
    SkippedCall =>
        /\ pc \in {"respond", "done"}
        /\ urls = <<>>
        /\ calls = <<>>
        /\ statuses = <<>>
        /\ summary = <<>>
        /\ attempts = <<>>
        /\ sheet = (IF sheet_ok THEN <<Headers>> ELSE <<>>)
        /\ response_text = <<>>
        /\ sent = <<>>
        /\ ~raised
        /\ pc = "done" => http_status = 200

\* A call with a body and the bare prefix as From was answered with 200.
C13_Witness ==
    /\ pc = "done"
    /\ message_body # <<>>
    /\ sender_number = <<>>
    /\ sent = <<>>
    /\ attempts = <<>>
    /\ http_status = 200

====
